---- MODULE Spec2Model ----
(***************************************************************************)
(* Control flow of ad9361-iiostream.c: context and channel acquisition,    *)
(* attribute configuration, buffer creation, TX fill and push, the RX      *)
(* warm-up and capture loops, the SIGINT handler and shutdown().           *)
(*                                                                         *)
(* Handles are modelled by their null-ness (TRUE = non-null).  Calls into  *)
(* libiio and libc are the environment: each call's result is drawn from   *)
(* the results the call can return.  Buffer pointers are byte addresses.   *)
(* Variables after "observations" below record what the program did        *)
(* (library calls made, rows written); the program never reads them.       *)
(***************************************************************************)
EXTENDS Integers, Sequences, FiniteSets

\* ---------------------------------------------------------------- bounds
\* Largest number of elements a buffer holds in the model (the source asks
\* for 256 and 1024 samples; the traversal code is the same for any size).
MaxElems == 2
\* Largest number of 16-bit words in one scan element the library reports.
MaxScanWords == 3

\* ------------------------------------------------------ program constants
\* for (rx_loop = 0; rx_loop < 2; rx_loop++)
WarmupRefills == 2
\* for (rx_loop = 0; rx_loop < 40; rx_loop++)
CaptureRefills == 40
\* sizeof(int16_t)
WordBytes == 2
\* ((int16_t *)p_dat)[0] and ((int16_t *)p_dat)[1]
ElemWords == 2

\* Bytes of one element access: the two 16-bit words at p_dat.
ElemBytes == ElemWords * WordBytes

\* Results of the ssize_t / int returning library calls: a negative errno
\* or success.
RetVals == {-22, 0}

\* Addresses iio_buffer_first() may return for the first sample of the TX
\* buffer and of the RX buffer.
TxBases == {8}
RxBases == {16}

\* Steps iio_buffer_step() may report: the scan holds at least the two
\* enabled 16-bit channels (I and Q).
Steps == {w * WordBytes : w \in ElemWords..MaxScanWords}

VARIABLES
    \* ---- program state
    pc,                 \* position of main / of the function it is in
    ctx, rx0_i, rx0_q, tx0_i, tx0_q, rxbuf, txbuf,   \* static handles
    stop,               \* static bool stop
    foutp, finp,        \* FILE* : "NULL", "open", "closed"
    nrx, rx_loop, p_dat, p_end, p_inc,               \* locals of main
    cfgType, cfgIdx,    \* cfg_ad9361_streaming_ch: its type argument and position
    chIdx,              \* which of the four get_ad9361_stream_ch calls is next
    sdIdx,              \* position inside shutdown()
    \* ---- library state of the two buffers
    txFirst, txStep, txElems, rxFirst, rxStep, rxElems,
    \* ---- observations
    attrLog,            \* attribute reads and writes, in order
    resolves,           \* get_phy_chan / get_lo_chan calls, in order
    cfgFalse,           \* cfg_ad9361_streaming_ch returned false
    releaseLog,         \* handles released by shutdown(), in order
    shutdownRuns,       \* number of times shutdown() started
    sdCause,            \* call site that invoked shutdown()
    closeLog,           \* closes of the two streams, in order
    inRows, outRows,    \* rows written to input.csv (element indices) / output.csv
    pushes, warmRefills, capRefills,   \* iio_buffer_push / refill calls
    dumped, received,   \* counters printed after each phase (-1: not printed)
    acc, adv,           \* last element access, last pointer advance
    failedOp, opsAfterFail

hnd == <<ctx, rx0_i, rx0_q, tx0_i, tx0_q, rxbuf, txbuf>>
fil == <<foutp, finp>>
trav == <<nrx, rx_loop, p_dat, p_end, p_inc>>
posv == <<cfgType, cfgIdx, chIdx, sdIdx>>
lib == <<txFirst, txStep, txElems, rxFirst, rxStep, rxElems>>
cfgObs == <<attrLog, resolves, cfgFalse>>
sdObs == <<releaseLog, shutdownRuns, sdCause, closeLog>>
ioObs == <<inRows, outRows, pushes, warmRefills, capRefills, dumped, received, acc, adv>>
failObs == <<failedOp, opsAfterFail>>

vars == <<pc, hnd, stop, fil, trav, posv, lib, cfgObs, sdObs, ioObs, failObs>>

NoAccess == [buf |-> "none", lo |-> 0, hi |-> 0]
NoAdvance == [buf |-> "none", by |-> 0]

Init ==
    /\ pc = "create_ctx"
    /\ ctx = FALSE /\ rx0_i = FALSE /\ rx0_q = FALSE
    /\ tx0_i = FALSE /\ tx0_q = FALSE /\ rxbuf = FALSE /\ txbuf = FALSE
    /\ stop = FALSE
    /\ foutp = "NULL" /\ finp = "NULL"
    /\ nrx = 0 /\ rx_loop = 0 /\ p_dat = 0 /\ p_end = 0 /\ p_inc = 0
    /\ cfgType = "RX" /\ cfgIdx = 1 /\ chIdx = 1 /\ sdIdx = 1
    /\ txFirst = 0 /\ txStep = 0 /\ txElems = 0
    /\ rxFirst = 0 /\ rxStep = 0 /\ rxElems = 0
    /\ attrLog = <<>> /\ resolves = <<>> /\ cfgFalse = FALSE
    /\ releaseLog = <<>> /\ shutdownRuns = 0 /\ sdCause = "none"
    /\ closeLog = <<>>
    /\ inRows = <<>> /\ outRows = 0
    /\ pushes = 0 /\ warmRefills = 0 /\ capRefills = 0
    /\ dumped = -1 /\ received = -1
    /\ acc = NoAccess /\ adv = NoAdvance
    /\ failedOp = "none" /\ opsAfterFail = 0

\* The process has ended: exit(0) at the end of shutdown(), abort() of
\* IIO_ENSURE, or a crash on a null dereference.
Ended == pc \in {"exited", "aborted", "crashed"}

\* ------------------------------------------------------------ IIO_ENSURE
\* A failed IIO_ENSURE prints and calls abort(): the process ends there.
EnsureFailViaShutdown == "shutdown"
EnsureFail == "aborted"

\* ---------------------------------------------------------------- errchk
\* errchk(v, what): v < 0 calls shutdown(), which does not return.
ErrchkIgnore(v, cont) == cont
Errchk(v, cont) == IF v < 0 THEN "shutdown" ELSE cont

\* One more library I/O operation (attribute read/write, buffer creation,
\* push, refill) named what; failed tells whether it reported failure.
NoteOp(what, failed) ==
    /\ opsAfterFail' = IF failedOp # "none" THEN opsAfterFail + 1 ELSE opsAfterFail
    /\ failedOp' = IF failed /\ failedOp = "none" THEN what ELSE failedOp

\* ------------------------------------------------------- main, lines 259-270
\* argc == 1: default context; argc == 2: context from URI; otherwise ctx
\* stays NULL and main goes on.
CreateContext ==
    /\ pc = "create_ctx"
    /\ \E argc \in 1..3, ok \in BOOLEAN :
         IF argc \in {1, 2}
         THEN /\ ctx' = ok
              /\ pc' = IF ok THEN "dev_count" ELSE EnsureFail
         ELSE /\ ctx' = ctx
              /\ pc' = "dev_count"
    /\ UNCHANGED <<rx0_i, rx0_q, tx0_i, tx0_q, rxbuf, txbuf, stop, fil, trav,
                   posv, lib, cfgObs, sdObs, ioObs, failObs>>

\* iio_context_get_devices_count(ctx) > 0.  With ctx NULL the call
\* dereferences a null pointer: the process crashes, or the garbage count
\* fails the assertion.
DevicesCount ==
    /\ pc = "dev_count"
    /\ IF ctx
       THEN \E n \in 0..1 : pc' = IF n > 0 THEN "find_dev_tx" ELSE EnsureFail
       ELSE pc' \in {"crashed", EnsureFail}
    /\ UNCHANGED <<hnd, stop, fil, trav, posv, lib, cfgObs, sdObs, ioObs, failObs>>

\* get_ad9361_stream_dev(TX, &tx), then (RX, &rx); then the RX configuration.
FindStreamDev ==
    /\ pc \in {"find_dev_tx", "find_dev_rx"}
    /\ \E found \in BOOLEAN :
         pc' = IF ~found THEN EnsureFail
               ELSE IF pc = "find_dev_tx" THEN "find_dev_rx" ELSE "cfg"
    /\ UNCHANGED <<hnd, stop, fil, trav, posv, lib, cfgObs, sdObs, ioObs, failObs>>

\* ------------------------------------------- cfg_ad9361_streaming_ch
Op(kind, name) == [kind |-> kind, name |-> name]

\* The calls of cfg_ad9361_streaming_ch in program order, with the RX gain
\* writes swapped (hardwaregain before gain_control_mode).
CfgOpsGainFirst(type) ==
    <<Op("resolve", "phy"),
      Op("wr", "rf_port_select"), Op("wr", "rf_bandwidth"),
      Op("wr", "sampling_frequency")>>
    \o (IF type = "TX"
        THEN <<Op("wr", "hardwaregain"), Op("rd", "hardwaregain")>>
        ELSE <<Op("wr", "hardwaregain"), Op("rd", "hardwaregain"),
               Op("wr", "gain_control_mode"), Op("rd", "gain_control_mode")>>)
    \o <<Op("resolve", "lo"), Op("wr", "frequency")>>

\* The calls of cfg_ad9361_streaming_ch in program order.
CfgOps(type) ==
    <<Op("resolve", "phy"),
      Op("wr", "rf_port_select"), Op("wr", "rf_bandwidth"),
      Op("wr", "sampling_frequency")>>
    \o (IF type = "TX"
        THEN <<Op("wr", "hardwaregain"), Op("rd", "hardwaregain")>>
        ELSE <<Op("wr", "gain_control_mode"), Op("rd", "gain_control_mode"),
               Op("wr", "hardwaregain"), Op("rd", "hardwaregain")>>)
    \o <<Op("resolve", "lo"), Op("wr", "frequency")>>

\* Where control is after the call at cfgIdx went well: the next call, or
\* "return true" to main, which configures TX after RX and then goes on to
\* the streaming channels.
CfgContinue ==
    IF cfgIdx < Len(CfgOps(cfgType))
    THEN /\ pc' = "cfg" /\ cfgType' = cfgType /\ cfgIdx' = cfgIdx + 1
    ELSE IF cfgType = "RX"
    THEN /\ pc' = "cfg" /\ cfgType' = "TX" /\ cfgIdx' = 1
    ELSE /\ pc' = "find_ch" /\ cfgType' = cfgType /\ cfgIdx' = cfgIdx

\* get_phy_chan / get_lo_chan.  Both first look up the ad9361-phy device
\* (IIO_ENSURE inside get_ad9361_phy), then the channel; a missing channel
\* makes cfg_ad9361_streaming_ch return false.
CfgResolve ==
    /\ pc = "cfg"
    /\ CfgOps(cfgType)[cfgIdx].kind = "resolve"
    /\ \E res \in {"nodev", "nochan", "ok"} :
         /\ resolves' = Append(resolves, <<cfgType, CfgOps(cfgType)[cfgIdx].name, res>>)
         /\ CASE res = "nodev"  -> /\ pc' = EnsureFail
                                   /\ UNCHANGED <<cfgType, cfgIdx, cfgFalse>>
              [] res = "nochan" -> /\ pc' = "cfg_false"
                                   /\ cfgFalse' = TRUE
                                   /\ UNCHANGED <<cfgType, cfgIdx>>
              [] res = "ok"     -> /\ CfgContinue
                                   /\ UNCHANGED cfgFalse
    /\ UNCHANGED <<hnd, stop, fil, trav, chIdx, sdIdx, lib, attrLog, sdObs,
                   ioObs, failObs>>

\* IIO_ENSURE(cfg_ad9361_streaming_ch(...) && "... port 0 not found") in main.
EnsureCfg ==
    /\ pc = "cfg_false"
    /\ pc' = EnsureFail
    /\ UNCHANGED <<hnd, stop, fil, trav, posv, lib, cfgObs, sdObs, ioObs, failObs>>

\* wr_ch_str / wr_ch_lli / rd_ch_str / rd_ch_lli: the attribute call, then
\* errchk on its result.
CfgAttr ==
    /\ pc = "cfg"
    /\ CfgOps(cfgType)[cfgIdx].kind \in {"wr", "rd"}
    /\ \E v \in RetVals :
         /\ attrLog' = Append(attrLog, [type |-> cfgType,
                                        kind |-> CfgOps(cfgType)[cfgIdx].kind,
                                        attr |-> CfgOps(cfgType)[cfgIdx].name,
                                        ret |-> v])
         /\ NoteOp("attr", v < 0)
         /\ IF Errchk(v, "cfg") = "shutdown"
            THEN /\ pc' = "shutdown"
                 /\ sdCause' = "attr"
                 /\ UNCHANGED <<cfgType, cfgIdx>>
            ELSE /\ CfgContinue
                 /\ UNCHANGED sdCause
    /\ UNCHANGED <<hnd, stop, fil, trav, chIdx, sdIdx, lib, resolves, cfgFalse,
                   releaseLog, shutdownRuns, closeLog, ioObs>>

\* ------------------------------------------------------- main, lines 276-286
\* get_ad9361_stream_ch for rx0_i, rx0_q, tx0_i, tx0_q: "voltage<id>" and, if
\* that is not found, "altvoltage<id>"; the handle is assigned either way.
FindStreamCh ==
    /\ pc = "find_ch"
    /\ \E first \in BOOLEAN, alt \in BOOLEAN :
         LET found == first \/ alt IN
         /\ rx0_i' = IF chIdx = 1 THEN found ELSE rx0_i
         /\ rx0_q' = IF chIdx = 2 THEN found ELSE rx0_q
         /\ tx0_i' = IF chIdx = 3 THEN found ELSE tx0_i
         /\ tx0_q' = IF chIdx = 4 THEN found ELSE tx0_q
         /\ IF ~found
            THEN pc' = EnsureFail /\ chIdx' = chIdx
            ELSE IF chIdx < 4
            THEN pc' = "find_ch" /\ chIdx' = chIdx + 1
            ELSE pc' = "enable" /\ chIdx' = chIdx
    /\ UNCHANGED <<ctx, rxbuf, txbuf, stop, fil, trav, cfgType, cfgIdx, sdIdx,
                   lib, cfgObs, sdObs, ioObs, failObs>>

\* iio_channel_enable on the four streaming channels.
EnableChannels ==
    /\ pc = "enable"
    /\ pc' = "create_rxbuf"
    /\ UNCHANGED <<hnd, stop, fil, trav, posv, lib, cfgObs, sdObs, ioObs, failObs>>

\* ------------------------------------------------- buffer accessors
\* A step taken to be the size of one I/Q pair instead of being read.
AssumedStep(buf) == ElemBytes
\* iio_buffer_step(buf)
BufferStep(buf) == IF buf = "tx" THEN txStep ELSE rxStep
\* iio_buffer_first(buf, chn)
BufferFirst(buf) == IF buf = "tx" THEN txFirst ELSE rxFirst
\* iio_buffer_end(buf): the buffer holds whole elements.
BufferEnd(buf) ==
    IF buf = "tx" THEN txFirst + txElems * txStep ELSE rxFirst + rxElems * rxStep

\* ------------------------------------------------------- main, lines 289-304
\* rxbuf = iio_device_create_buffer(rx, 256, false); NULL calls shutdown().
CreateRxBuf ==
    /\ pc = "create_rxbuf"
    /\ \E ok \in BOOLEAN :
         /\ rxbuf' = ok
         /\ NoteOp("rxbuf", ~ok)
         /\ IF ok
            THEN /\ \E b \in RxBases, s \in Steps, n \in 0..MaxElems :
                      rxFirst' = b /\ rxStep' = s /\ rxElems' = n
                 /\ pc' = "create_txbuf"
                 /\ UNCHANGED sdCause
            ELSE /\ pc' = "shutdown"
                 /\ sdCause' = "rxbuf"
                 /\ UNCHANGED <<rxFirst, rxStep, rxElems>>
    /\ UNCHANGED <<ctx, rx0_i, rx0_q, tx0_i, tx0_q, txbuf, stop, fil, trav, posv,
                   txFirst, txStep, txElems, cfgObs, releaseLog, shutdownRuns,
                   closeLog, ioObs>>

\* txbuf = iio_device_create_buffer(tx, 256*4, false); NULL calls shutdown().
CreateTxBuf ==
    /\ pc = "create_txbuf"
    /\ \E ok \in BOOLEAN :
         /\ txbuf' = ok
         /\ NoteOp("txbuf", ~ok)
         /\ IF ok
            THEN /\ \E b \in TxBases, s \in Steps, n \in 0..MaxElems :
                      txFirst' = b /\ txStep' = s /\ txElems' = n
                 /\ pc' = "fopen"
                 /\ UNCHANGED sdCause
            ELSE /\ pc' = "shutdown"
                 /\ sdCause' = "txbuf"
                 /\ UNCHANGED <<txFirst, txStep, txElems>>
    /\ UNCHANGED <<ctx, rx0_i, rx0_q, tx0_i, tx0_q, rxbuf, stop, fil, trav, posv,
                   rxFirst, rxStep, rxElems, cfgObs, releaseLog, shutdownRuns,
                   closeLog, ioObs>>

\* foutp = fopen("output.csv", "w+"); finp = fopen("input.csv", "w+"): either
\* may return NULL, and main does not look.  Then lines 320-324: the TX
\* traversal starts.
OpenFiles ==
    /\ pc = "fopen"
    /\ foutp' \in {"open", "NULL"}
    /\ finp' \in {"open", "NULL"}
    /\ p_inc' = BufferStep("tx")
    /\ p_end' = BufferEnd("tx")
    /\ p_dat' = BufferFirst("tx")
    /\ pc' = "tx_loop"
    /\ UNCHANGED <<hnd, stop, nrx, rx_loop, posv, lib, cfgObs, sdObs, ioObs, failObs>>

\* ------------------------------------------------- traversal loops
\* A loop that stops one element early.
LoopContShort(p, e) == p + p_inc < e
\* p_dat < p_end, the condition of the three traversal loops.
LoopCont(p, e) == p < e

\* The two 16-bit words at p: bytes [p, p + ElemBytes).
Access(buf, p) == [buf |-> buf, lo |-> p, hi |-> p + ElemBytes]

\* ------------------------------------------------------- main, lines 324-343
\* One iteration of the TX fill loop: write I and Q at p_dat, append the row
\* to input.csv, advance.  fprintf on a NULL stream crashes.
TxLoop ==
    /\ pc = "tx_loop"
    /\ IF LoopCont(p_dat, p_end)
       THEN /\ acc' = Access("tx", p_dat)
            /\ IF finp = "open"
               THEN /\ inRows' = Append(inRows, (p_dat - txFirst) \div txStep)
                    /\ p_dat' = p_dat + p_inc
                    /\ adv' = [buf |-> "tx", by |-> p_inc]
                    /\ pc' = "tx_loop"
               ELSE /\ pc' = "crashed"
                    /\ UNCHANGED <<inRows, p_dat, adv>>
       ELSE /\ pc' = "push"
            /\ UNCHANGED <<acc, inRows, p_dat, adv>>
    /\ UNCHANGED <<hnd, stop, fil, nrx, rx_loop, p_end, p_inc, posv, lib, cfgObs,
                   sdObs, outRows, pushes, warmRefills, capRefills, dumped,
                   received, failObs>>

\* nbytes_tx = iio_buffer_push(txbuf); negative calls shutdown().  Otherwise
\* the warm-up loop starts (rx_loop = 0).
Push ==
    /\ pc = "push"
    /\ \E v \in {-22, txElems * txStep} :
         /\ pushes' = pushes + 1
         /\ NoteOp("push", v < 0)
         /\ IF v < 0
            THEN /\ pc' = "shutdown" /\ sdCause' = "push"
                 /\ UNCHANGED rx_loop
            ELSE /\ pc' = "warm_head" /\ rx_loop' = 0
                 /\ UNCHANGED sdCause
    /\ UNCHANGED <<hnd, stop, fil, nrx, p_dat, p_end, p_inc, posv, lib, cfgObs,
                   releaseLog, shutdownRuns, closeLog, inRows, outRows,
                   warmRefills, capRefills, dumped, received, acc, adv>>

\* ------------------------------------------------------- main, lines 347-362
\* A warm-up loop that runs once more.
WarmContExtra(n) == n <= WarmupRefills
\* rx_loop < 2
WarmCont(n) == n < WarmupRefills

\* A capture loop that polls the stop flag.
CaptureContPollsStop(n) == n < CaptureRefills /\ ~stop
\* rx_loop < 40
CaptureCont(n) == n < CaptureRefills

\* iio_buffer_refill(rxbuf), then lines 353-355 / 371-373: step, end and
\* first are read from the buffer again.
Refill(phase, v) ==
    /\ NoteOp(phase, v < 0)
    /\ IF v < 0
       THEN /\ pc' = "shutdown" /\ sdCause' = phase
            /\ UNCHANGED <<p_inc, p_end, p_dat>>
       ELSE /\ p_inc' = BufferStep("rx")
            /\ p_end' = BufferEnd("rx")
            /\ p_dat' = BufferFirst("rx")
            /\ pc' = IF phase = "warm_refill" THEN "warm_loop" ELSE "cap_loop"
            /\ UNCHANGED sdCause

\* Head of the warm-up loop: test rx_loop, refill.
WarmHead ==
    /\ pc = "warm_head"
    /\ IF WarmCont(rx_loop)
       THEN /\ \E v \in {-22, rxElems * rxStep} : Refill("warm_refill", v)
            /\ warmRefills' = warmRefills + 1
       ELSE /\ pc' = "warm_report"
            /\ UNCHANGED <<p_inc, p_end, p_dat, sdCause, warmRefills, failObs>>
    /\ UNCHANGED <<hnd, stop, fil, nrx, rx_loop, posv, lib, cfgObs, releaseLog,
                   shutdownRuns, closeLog, inRows, outRows, pushes, capRefills,
                   dumped, received, acc, adv>>

\* One iteration of the warm-up drain loop: count the element, read nothing.
WarmLoop ==
    /\ pc = "warm_loop"
    /\ IF LoopCont(p_dat, p_end)
       THEN /\ nrx' = nrx + 1
            /\ p_dat' = p_dat + p_inc
            /\ adv' = [buf |-> "rx", by |-> p_inc]
            /\ UNCHANGED <<pc, rx_loop>>
       ELSE /\ rx_loop' = rx_loop + 1
            /\ pc' = "warm_head"
            /\ UNCHANGED <<nrx, p_dat, adv>>
    /\ UNCHANGED <<hnd, stop, fil, p_end, p_inc, posv, lib, cfgObs, sdObs, inRows,
                   outRows, pushes, warmRefills, capRefills, dumped, received,
                   acc, failObs>>

\* printf("* data values dumped RX %d\n", nrx); nrx = 0; the capture loop
\* starts.
WarmReport ==
    /\ pc = "warm_report"
    /\ dumped' = nrx
    /\ nrx' = 0
    /\ rx_loop' = 0
    /\ pc' = "cap_head"
    /\ UNCHANGED <<hnd, stop, fil, p_dat, p_end, p_inc, posv, lib, cfgObs, sdObs,
                   inRows, outRows, pushes, warmRefills, capRefills, received,
                   acc, adv, failObs>>

\* ------------------------------------------------------- main, lines 365-388
\* Head of the capture loop: test rx_loop, refill.
CapHead ==
    /\ pc = "cap_head"
    /\ IF CaptureCont(rx_loop)
       THEN /\ \E v \in {-22, rxElems * rxStep} : Refill("cap_refill", v)
            /\ capRefills' = capRefills + 1
       ELSE /\ pc' = "cap_report"
            /\ UNCHANGED <<p_inc, p_end, p_dat, sdCause, capRefills, failObs>>
    /\ UNCHANGED <<hnd, stop, fil, nrx, rx_loop, posv, lib, cfgObs, releaseLog,
                   shutdownRuns, closeLog, inRows, outRows, pushes, warmRefills,
                   dumped, received, acc, adv>>

\* One iteration of the capture drain loop: read I and Q at p_dat, count,
\* append the row to output.csv, advance.
CapLoop ==
    /\ pc = "cap_loop"
    /\ IF LoopCont(p_dat, p_end)
       THEN /\ acc' = Access("rx", p_dat)
            /\ nrx' = nrx + 1
            /\ IF foutp = "open"
               THEN /\ outRows' = outRows + 1
                    /\ p_dat' = p_dat + p_inc
                    /\ adv' = [buf |-> "rx", by |-> p_inc]
                    /\ UNCHANGED <<pc, rx_loop>>
               ELSE /\ pc' = "crashed"
                    /\ UNCHANGED <<outRows, p_dat, adv, rx_loop>>
       ELSE /\ rx_loop' = rx_loop + 1
            /\ pc' = "cap_head"
            /\ UNCHANGED <<acc, nrx, outRows, p_dat, adv>>
    /\ UNCHANGED <<hnd, stop, fil, p_end, p_inc, posv, lib, cfgObs, sdObs, inRows,
                   pushes, warmRefills, capRefills, dumped, received, failObs>>

\* printf("* data values received RX %d\n", nrx);
CapReport ==
    /\ pc = "cap_report"
    /\ received' = nrx
    /\ pc' = "fclose_in"
    /\ UNCHANGED <<hnd, stop, fil, trav, posv, lib, cfgObs, sdObs, inRows, outRows,
                   pushes, warmRefills, capRefills, dumped, acc, adv, failObs>>

\* A close that is left out: the stream stays as it was.
FcloseOmitted(st) == st
\* fclose(f) on an open stream.
Fclose(st) == "closed"

Closed(f, by) == [f |-> f, by |-> by, sd |-> shutdownRuns]

\* fclose(finp); fclose(NULL) crashes.
FcloseIn ==
    /\ pc = "fclose_in"
    /\ IF finp = "open"
       THEN /\ finp' = Fclose(finp)
            /\ closeLog' = IF finp' = "closed"
                           THEN Append(closeLog, Closed("finp", "fclose"))
                           ELSE closeLog
            /\ pc' = "fclose_out"
       ELSE /\ pc' = "crashed"
            /\ UNCHANGED <<finp, closeLog>>
    /\ UNCHANGED <<hnd, stop, foutp, trav, posv, lib, cfgObs, releaseLog,
                   shutdownRuns, sdCause, ioObs, failObs>>

\* fclose(foutp); then shutdown() is called from the end of main.
FcloseOut ==
    /\ pc = "fclose_out"
    /\ IF foutp = "open"
       THEN /\ foutp' = Fclose(foutp)
            /\ closeLog' = IF foutp' = "closed"
                           THEN Append(closeLog, Closed("foutp", "fclose"))
                           ELSE closeLog
            /\ pc' = "shutdown"
            /\ sdCause' = "normal"
       ELSE /\ pc' = "crashed"
            /\ UNCHANGED <<foutp, closeLog, sdCause>>
    /\ UNCHANGED <<hnd, stop, finp, trav, posv, lib, cfgObs, releaseLog,
                   shutdownRuns, ioObs, failObs>>

\* -------------------------------------------------------------- shutdown
Handle(h) ==
    CASE h = "rxbuf" -> rxbuf
      [] h = "txbuf" -> txbuf
      [] h = "rx0_i" -> rx0_i
      [] h = "rx0_q" -> rx0_q
      [] h = "tx0_i" -> tx0_i
      [] h = "tx0_q" -> tx0_q
      [] h = "ctx"   -> ctx

\* shutdown() with the context destroyed before the buffers.
ShutdownOrderCtxFirst == <<"ctx", "rxbuf", "txbuf", "rx0_i", "rx0_q", "tx0_i", "tx0_q">>
\* The releases of shutdown() in program order.
ShutdownOrder == <<"rxbuf", "txbuf", "rx0_i", "rx0_q", "tx0_i", "tx0_q", "ctx">>

\* A release without its null check.
SdGuardMissing(h) == TRUE
\* if (h) { ... }
SdGuard(h) == Handle(h)

\* One statement of shutdown(): if (h) release(h).
ShutdownStep ==
    /\ pc = "shutdown"
    /\ sdIdx <= Len(ShutdownOrder)
    /\ shutdownRuns' = IF sdIdx = 1 THEN shutdownRuns + 1 ELSE shutdownRuns
    /\ releaseLog' = IF SdGuard(ShutdownOrder[sdIdx])
                     THEN Append(releaseLog, ShutdownOrder[sdIdx])
                     ELSE releaseLog
    /\ sdIdx' = sdIdx + 1
    /\ UNCHANGED <<pc, hnd, stop, fil, trav, cfgType, cfgIdx, chIdx, lib, cfgObs,
                   sdCause, closeLog, ioObs, failObs>>

\* exit(0): the C library closes every stream that is still open, and the
\* process ends.
ShutdownExit ==
    /\ pc = "shutdown"
    /\ sdIdx > Len(ShutdownOrder)
    /\ pc' = "exited"
    /\ foutp' = IF foutp = "open" THEN "closed" ELSE foutp
    /\ finp' = IF finp = "open" THEN "closed" ELSE finp
    /\ closeLog' = closeLog
                   \o (IF foutp = "open" THEN <<Closed("foutp", "exit")>> ELSE <<>>)
                   \o (IF finp = "open" THEN <<Closed("finp", "exit")>> ELSE <<>>)
    /\ UNCHANGED <<hnd, stop, trav, posv, lib, cfgObs, releaseLog, shutdownRuns,
                   sdCause, ioObs, failObs>>

\* ------------------------------------------------------------ handle_sig
\* A handler that runs the shutdown sequence itself.
HandleSigShutsDown == "shutdown"
\* handle_sig returns to the interrupted code.
HandleSigReturn == pc

\* SIGINT delivered while the process runs: printf, stop = true.
HandleSig ==
    /\ ~Ended
    /\ stop' = TRUE
    /\ pc' = HandleSigReturn
    /\ UNCHANGED <<hnd, fil, trav, posv, lib, cfgObs, sdObs, ioObs, failObs>>

Next ==
    \/ CreateContext
    \/ DevicesCount
    \/ FindStreamDev
    \/ CfgResolve
    \/ EnsureCfg
    \/ CfgAttr
    \/ FindStreamCh
    \/ EnableChannels
    \/ CreateRxBuf
    \/ CreateTxBuf
    \/ OpenFiles
    \/ TxLoop
    \/ Push
    \/ WarmHead
    \/ WarmLoop
    \/ WarmReport
    \/ CapHead
    \/ CapLoop
    \/ CapReport
    \/ FcloseIn
    \/ FcloseOut
    \/ ShutdownStep
    \/ ShutdownExit
    \/ HandleSig

Spec == Init /\ [][Next]_vars

\* ======================================================================
\* Properties
\* ======================================================================
HandleNames == {"rxbuf", "txbuf", "rx0_i", "rx0_q", "tx0_i", "tx0_q", "ctx"}
ReleaseCount(h) == Cardinality({i \in 1..Len(releaseLog) : releaseLog[i] = h})
CloseCount(f) == Cardinality({i \in 1..Len(closeLog) : closeLog[i].f = f})
Refills == warmRefills + capRefills
InShutdown == pc \in {"shutdown", "exited"}

\* C1: a run that reaches the end of the warm-up phase has made exactly 2
\* refills, written no output.csv row and reports 2 * E; a run that reaches
\* the end of the capture phase has made exactly 40 more refills, written
\* one row per element, 40 * E rows, and reports 40 * E (E = elements per
\* refill of the RX buffer).  No capture refill precedes the second warm-up
\* refill.
C1_RefillCounts ==
    /\ warmRefills <= 2 /\ capRefills <= 40
    /\ (capRefills = 0 => outRows = 0)
    /\ (capRefills > 0 => warmRefills = 2)
    /\ (dumped # -1 => warmRefills = 2 /\ dumped = 2 * rxElems)
    /\ (received # -1 =>
           /\ dumped # -1
           /\ capRefills = 40
           /\ outRows = 40 * rxElems
           /\ received = 40 * rxElems)
    /\ (sdCause = "normal" => received # -1)

C1_Witness ==
    /\ pc = "exited" /\ sdCause = "normal"
    /\ rxElems >= 2
    /\ dumped = 2 * rxElems
    /\ outRows = 40 * rxElems /\ received = outRows

\* The release order the shutdown sequencer is specified to follow.
C2Order == <<"rxbuf", "txbuf", "rx0_i", "rx0_q", "tx0_i", "tx0_q", "ctx">>
C2Rank(h) == CHOOSE i \in 1..Len(C2Order) : C2Order[i] = h

\* C2: releases happen only inside shutdown(), in the order RX buffer, TX
\* buffer, rx0_i, rx0_q, tx0_i, tx0_q, context, each only for a non-null
\* handle, and the process exits only after the step for every handle has
\* been taken.
C2_ShutdownOrder ==
    /\ \A i, j \in 1..Len(releaseLog) :
          i < j => C2Rank(releaseLog[i]) < C2Rank(releaseLog[j])
    /\ \A i \in 1..Len(releaseLog) : Handle(releaseLog[i])
    /\ (~InShutdown => releaseLog = <<>>)
    /\ (pc = "shutdown" =>
          releaseLog = SelectSeq(SubSeq(C2Order, 1, sdIdx - 1), Handle))
    /\ (pc = "exited" => releaseLog = SelectSeq(C2Order, Handle))

C2_Witness ==
    /\ pc = "exited"
    /\ releaseLog = C2Order

\* C3: no handle is released twice, no handle that was never acquired is
\* released, shutdown() starts at most once, and after exit every acquired
\* buffer and the context have been destroyed exactly once; shutdown() is
\* entered only from its call sites.
C3_ReleaseOnce ==
    /\ \A h \in HandleNames :
          /\ ReleaseCount(h) <= 1
          /\ (ReleaseCount(h) = 1 => Handle(h))
    /\ shutdownRuns <= 1
    /\ (InShutdown =>
          sdCause \in {"attr", "rxbuf", "txbuf", "push", "warm_refill",
                       "cap_refill", "normal"})
    /\ (pc = "exited" =>
          \A h \in {"rxbuf", "txbuf", "ctx"} : Handle(h) => ReleaseCount(h) = 1)

C3_Witness ==
    /\ pc = "exited" /\ sdCause = "txbuf"
    /\ ReleaseCount("rxbuf") = 1 /\ ReleaseCount("txbuf") = 0
    /\ ReleaseCount("ctx") = 1

\* C4 as stated: after cfg_ad9361_streaming_ch returned false the run ends
\* through shutdown(), with the context destroyed.
C4_Original ==
    (cfgFalse /\ Ended) => (pc = "exited" /\ ReleaseCount("ctx") = 1)

\* C4 amended: a channel that cannot be resolved makes
\* cfg_ad9361_streaming_ch return false, nothing is resolved again after
\* it, and the caller's IIO_ENSURE ends the process by abort(): shutdown()
\* never starts and the context is not destroyed.
C4_AbortNoShutdown ==
    /\ \A i \in 1..Len(resolves) :
          resolves[i][3] = "nochan" => (cfgFalse /\ i = Len(resolves))
    /\ \A i, j \in 1..Len(resolves) :
          (resolves[i][1] = resolves[j][1] /\ resolves[i][2] = resolves[j][2])
             => i = j
    /\ (cfgFalse =>
          /\ resolves # <<>> /\ resolves[Len(resolves)][3] = "nochan"
          /\ pc \in {"cfg_false", "aborted"}
          /\ shutdownRuns = 0
          /\ releaseLog = <<>>
          /\ ctx)

C4_Witness ==
    /\ cfgFalse /\ pc = "aborted"
    /\ resolves[Len(resolves)] = <<"TX", "lo", "nochan">>
    /\ ctx /\ ReleaseCount("ctx") = 0

FilesOpened == foutp # "NULL" /\ finp # "NULL"
ClosedBeforeShutdown(f) ==
    \E i \in 1..Len(closeLog) :
        closeLog[i].f = f /\ closeLog[i].by = "fclose" /\ closeLog[i].sd = 0
ClosedByExit(f) ==
    \E i \in 1..Len(closeLog) :
        closeLog[i].f = f /\ closeLog[i].by = "exit" /\ closeLog[i].sd = 1

\* C5 as stated: whenever both files were opened and shutdown() has been
\* called (normal completion, negative push, negative refill), each file was
\* closed exactly once before shutdown() started.
C5_Original ==
    (FilesOpened /\ InShutdown
       /\ sdCause \in {"normal", "push", "warm_refill", "cap_refill"})
    => \A f \in {"foutp", "finp"} : CloseCount(f) = 1 /\ ClosedBeforeShutdown(f)

\* C5 amended: no file is closed twice.  On normal completion each of the two
\* files is closed exactly once by fclose before shutdown() starts.  After a
\* negative push or refill result shutdown() runs with both files still
\* open, and each is closed exactly once by exit() at the end of shutdown().
C5_Closes ==
    /\ \A f \in {"foutp", "finp"} : CloseCount(f) <= 1
    /\ (FilesOpened /\ sdCause = "normal" =>
          /\ InShutdown
          /\ foutp = "closed" /\ finp = "closed"
          /\ \A f \in {"foutp", "finp"} : ClosedBeforeShutdown(f))
    /\ (FilesOpened /\ sdCause \in {"push", "warm_refill", "cap_refill"} =>
          /\ (pc = "shutdown" =>
                foutp = "open" /\ finp = "open" /\ closeLog = <<>>)
          /\ (pc = "exited" =>
                /\ foutp = "closed" /\ finp = "closed"
                /\ \A f \in {"foutp", "finp"} : ClosedByExit(f)))

C5_Witness ==
    /\ pc = "exited" /\ sdCause = "normal"
    /\ ClosedBeforeShutdown("finp") /\ ClosedBeforeShutdown("foutp")
    /\ CloseCount("finp") = 1 /\ CloseCount("foutp") = 1

\* C6: a step that sets the stop flag changes nothing else (it does not
\* enter shutdown(), and does not touch the loop counters or any count of
\* library calls), and a run that completes with the flag set has still
\* made one push, 2 warm-up refills and 40 capture refills.
C6_SignalInert ==
    /\ [][stop' # stop =>
            /\ stop' = TRUE
            /\ UNCHANGED <<pc, hnd, fil, trav, posv, lib, cfgObs, sdObs, ioObs,
                           failObs>>]_vars
    /\ []((stop /\ sdCause = "normal") =>
            (pushes = 1 /\ warmRefills = 2 /\ capRefills = 40))
    /\ []((stop /\ ~InShutdown) => shutdownRuns = 0)

C6_Witness ==
    /\ stop /\ pc = "exited" /\ sdCause = "normal"
    /\ pushes = 1 /\ warmRefills = 2 /\ capRefills = 40

\* C7: once an attribute call returned a negative value, a buffer creation
\* returned NULL, or push or a refill returned a negative value, the program
\* is in shutdown() (which can always take its next step) or has exited, and
\* it makes no further attribute call, buffer creation, push or refill; a
\* negative attribute result is the last attribute call made.
C7_FailStop ==
    /\ opsAfterFail = 0
    /\ \A i \in 1..Len(attrLog) :
          attrLog[i].ret < 0 => (i = Len(attrLog) /\ failedOp = "attr")
    /\ (failedOp # "none" =>
          /\ InShutdown
          /\ sdCause = failedOp
          /\ shutdownRuns <= 1
          /\ (pc = "shutdown" => ENABLED (ShutdownStep \/ ShutdownExit)))
    /\ (failedOp = "rxbuf" => ~rxbuf /\ ~txbuf /\ pushes = 0)
    /\ (failedOp = "txbuf" => ~txbuf /\ pushes = 0)
    /\ (failedOp = "push" => pushes = 1 /\ Refills = 0)
    /\ (failedOp = "warm_refill" => capRefills = 0)

C7_Witness ==
    /\ failedOp = "attr" /\ pc = "exited"
    /\ attrLog[Len(attrLog)].ret < 0
    /\ Len(attrLog) > 1

\* C8: the TX buffer is pushed at most once, and exactly once in a run that
\* completes; at the push every element has been written and logged, one
\* row per element in traversal order; no refill precedes the push; after a
\* negative push result no refill is made and the run is in shutdown().
C8_PushOnce ==
    /\ pushes <= 1
    /\ Len(inRows) <= txElems
    /\ \A i \in 1..Len(inRows) : inRows[i] = i - 1
    /\ (pushes = 1 => Len(inRows) = txElems)
    /\ (pushes = 0 => Refills = 0)
    /\ (failedOp = "push" => Refills = 0 /\ InShutdown /\ sdCause = "push")
    /\ (sdCause = "normal" => pushes = 1)

C8_Witness ==
    /\ pushes = 1 /\ txElems >= 2
    /\ Len(inRows) = txElems
    /\ warmRefills >= 1

\* attrLog[i] is the write of attr on the type channel.
IsWrite(i, type, attr) ==
    attrLog[i].type = type /\ attrLog[i].kind = "wr" /\ attrLog[i].attr = attr
Written(type, attr) == \E i \in 1..Len(attrLog) : IsWrite(i, type, attr)
\* Every write of b comes after a successful write of a.
WrittenBefore(type, a, b) ==
    \A i \in 1..Len(attrLog) :
        IsWrite(i, type, b) =>
            \E j \in 1..(i - 1) : IsWrite(j, type, a) /\ attrLog[j].ret >= 0

\* C9: for RX, gain_control_mode is written, successfully, before
\* hardwaregain; both writes come after the writes of rf_port_select,
\* rf_bandwidth and sampling_frequency and before the write of the LO
\* frequency.  For TX, hardwaregain is written after the three common
\* attributes and before frequency, and gain_control_mode is never written
\* or read.
C9_GainOrder ==
    /\ WrittenBefore("RX", "gain_control_mode", "hardwaregain")
    /\ WrittenBefore("RX", "rf_port_select", "gain_control_mode")
    /\ WrittenBefore("RX", "rf_bandwidth", "gain_control_mode")
    /\ WrittenBefore("RX", "sampling_frequency", "gain_control_mode")
    /\ WrittenBefore("RX", "hardwaregain", "frequency")
    /\ WrittenBefore("TX", "sampling_frequency", "hardwaregain")
    /\ WrittenBefore("TX", "hardwaregain", "frequency")
    /\ \A i \in 1..Len(attrLog) :
          attrLog[i].type = "TX" => attrLog[i].attr # "gain_control_mode"

C9_Witness ==
    /\ Written("RX", "gain_control_mode")
    /\ Written("RX", "hardwaregain")
    /\ Written("RX", "frequency")
    /\ Written("TX", "hardwaregain")
    /\ Written("TX", "frequency")
    /\ attrLog[Len(attrLog)].ret >= 0

\* What the library holds for buf, read from its state.
LibFirst(buf) == IF buf = "tx" THEN txFirst ELSE rxFirst
LibStep(buf) == IF buf = "tx" THEN txStep ELSE rxStep
LibEnd(buf) == LibFirst(buf) + LibStep(buf) * (IF buf = "tx" THEN txElems ELSE rxElems)

\* C10: every element access (the two 16-bit words at p_dat) lies within
\* [first, end) of the buffer traversed, and every advance of p_dat is by
\* the step that buffer reports.
C10_Traversal ==
    /\ (acc.buf # "none" =>
          LibFirst(acc.buf) <= acc.lo /\ acc.hi <= LibEnd(acc.buf))
    /\ (adv.buf # "none" => adv.by = LibStep(adv.buf))
    /\ (pc \in {"tx_loop", "warm_loop", "cap_loop"} =>
          /\ p_dat <= p_end
          /\ p_inc = LibStep(IF pc = "tx_loop" THEN "tx" ELSE "rx")
          /\ p_end = LibEnd(IF pc = "tx_loop" THEN "tx" ELSE "rx"))

C10_Witness ==
    /\ pc = "cap_loop" /\ capRefills = 40
    /\ rxStep > 4 /\ rxElems >= 2 /\ rxFirst > 0
    /\ acc.buf = "rx" /\ acc.hi + (rxStep - 4) = LibEnd("rx")
    /\ adv = [buf |-> "rx", by |-> rxStep]

====
